---- MODULE Spec2Model ----
(***************************************************************************)
(* State-machine model of the skip list engine of ironpark/skiplist       *)
(* (element.go and skiplist.go, kept in src/unnamed/part_000).             *)
(*                                                                         *)
(* The Go heap is a function `elems` from addresses to Element records; 0  *)
(* is the nil pointer and ListHeader names &list.elementHeader.  The       *)
(* allocator's choice of a fresh address is arbitrary and the program only *)
(* compares pointers for equality, so a new element for key k is placed at *)
(* the first free address of k, k + MaxKey * g.                            *)
(* A Go slice index i is the sequence index i+1.  Every handler is an      *)
(* operator from a list state record to a result [st, ret, status]; the   *)
(* status is "ok", "panic" (nil dereference or index out of range) or     *)
(* "hang" (a loop that never ends).                                        *)
(***************************************************************************)
EXTENDS Integers, Sequences, FiniteSets, TLC

\* ---- bounds of the model ------------------------------------------------
MaxKey == 3
MaxVal == 2
MaxElems == 2
\* DefaultMaxLevel is 18 in the source; the model scales it down.
DefaultMaxLevel == 2
\* elements allocated in the runs that call SetMaxLevel
MaxResizeElems == 1
\* threads calling the SafeSkipList at once
MaxThreads == 2

KeySet == 1..MaxKey
ValueSet == 1..MaxVal
\* the keys looked up: the keys inserted, one below them and one above
QueryKeys == 0..MaxKey + 1

Nil == 0
ListHeader == -1
ForeignAddr == -2
ThisList == 1
OtherList == 2

VARIABLES
    elems,      \* the heap: address -> Element record
    levels,     \* list.levels (the visible slice of the header array)
    spare,      \* slots of the header's backing array beyond len(list.levels)
    maxLevel,   \* list.maxLevel
    probTable,  \* list.probTable: the exponent i of each entry probability^i
    length,     \* list.length
    back,       \* list.back
    panicked,   \* TRUE once a call has aborted; the program is then dead
    ref,        \* reference ordered map run side by side: key -> [val, elem]
    lockW,      \* SafeSkipList.lock: the thread holding it exclusively
    lockR,      \* SafeSkipList.lock: the threads holding it shared
    thr,        \* per thread: the wrapper method it is in and how far it got
    acc         \* the caller of an Element accessor, which takes no lock

listVars == <<elems, levels, spare, maxLevel, probTable, length, back, panicked, ref>>
lockVars == <<lockW, lockR, thr, acc>>
vars == <<listVars, lockVars>>

\* The list object as one record.
S == [elems |-> elems, levels |-> levels, spare |-> spare,
      maxLevel |-> maxLevel, probTable |-> probTable, length |-> length,
      back |-> back]

Min(a, b) == IF a < b THEN a ELSE b

Ok(st, ret) == [st |-> st, ret |-> ret, status |-> "ok"]
Fail(st, why) == [st |-> st, ret |-> Nil, status |-> why]

\* ---- comparators ---------------------------------------------------------
NumberComparator(lk, rk) == IF lk > rk THEN 1 ELSE IF lk < rk THEN -1 ELSE 0

\* list.compare(key, rhs); rhs is a non-nil element (callers test for nil).
compare(st, key, rhs) == NumberComparator(key, st.elems[rhs].key)

\* ---- Element ---------------------------------------------------------------
newElement(list, level, key, value) ==
    [key |-> key, Value |-> value, levels |-> [i \in 1..level |-> Nil],
     prev |-> Nil, prevTopLevel |-> Nil, list |-> list]

\* (*elementHeader).levels for the list header or an element.
HLevels(st, h) == IF h = ListHeader THEN st.levels ELSE st.elems[h].levels

Level(st, e) == Len(st.elems[e].levels)

ElemNext(st, e) == IF Len(st.elems[e].levels) = 0 THEN Nil ELSE st.elems[e].levels[1]

ElemPrev(st, e) == st.elems[e].prev

Key(st, e) == st.elems[e].key

NextLevel(st, e, level) ==
    IF level < 0 \/ level >= Len(st.elems[e].levels) THEN Nil
    ELSE st.elems[e].levels[level + 1]

\* for prev != nil { if level < len(prev.levels) { return prev }; prev = prev.prevTopLevel }
\* ListHeader stands for a walk that never ends
RECURSIVE prevLevelWalk(_, _, _, _)
prevLevelWalk(st, prev, level, fuel) ==
    IF prev = Nil THEN Nil
    ELSE IF fuel = 0 THEN ListHeader
    ELSE IF level < Len(st.elems[prev].levels) THEN prev
    ELSE prevLevelWalk(st, st.elems[prev].prevTopLevel, level, fuel - 1)

\* a bug: every valid level answers with prev
PrevLevel_prevOnly(st, e, level) ==
    IF level < 0 \/ level >= Len(st.elems[e].levels) THEN Nil
    ELSE st.elems[e].prev

PrevLevel(st, e, level) ==
    IF level < 0 \/ level >= Len(st.elems[e].levels) THEN Nil
    ELSE IF level = 0 THEN st.elems[e].prev
    ELSE IF level = Len(st.elems[e].levels) - 1 THEN st.elems[e].prevTopLevel
    ELSE prevLevelWalk(st, st.elems[e].prev, level, Cardinality(DOMAIN st.elems) + 1)

\* a bug: the owner survives the reset
reset_keepOwner(st, e) ==
    [st EXCEPT !.elems[e].prev = Nil,
               !.elems[e].prevTopLevel = Nil, !.elems[e].levels = <<>>]

reset(st, e) ==
    [st EXCEPT !.elems[e].list = Nil, !.elems[e].prev = Nil,
               !.elems[e].prevTopLevel = Nil, !.elems[e].levels = <<>>]

\* the i-th assignment of reset()
resetStep(st, e, i) ==
    CASE i = 1 -> [st EXCEPT !.elems[e].list = Nil]
      [] i = 2 -> [st EXCEPT !.elems[e].prev = Nil]
      [] i = 3 -> [st EXCEPT !.elems[e].prevTopLevel = Nil]
      [] i = 4 -> [st EXCEPT !.elems[e].levels = <<>>]

\* ---- elementPool -------------------------------------------------------------
\* a bug: the forward array is handed out as it comes from the pool
appendNil_none(lv, level) == lv

\* for len(element.levels) < level { element.levels = append(element.levels, nil) }
RECURSIVE appendNil(_, _)
appendNil(lv, level) ==
    IF Len(lv) < level THEN appendNil(Append(lv, Nil), level) ELSE lv

\* elementPool.Get when the pool hands out the shell e that was Put before
elementPoolGet(st, e, list, level, key, value) ==
    [st EXCEPT !.elems[e].levels = appendNil(@, level),
               !.elems[e].Value = value,
               !.elems[e].key = key,
               !.elems[e].list = list]

\* ---- SkipList accessors ---------------------------------------------------
Front(st) == st.levels[1]
Back(st) == st.back
ListLen(st) == st.length

\* More steps than any terminating loop of the engine can take on st.
MaxHeight(st) ==
    LET hs == {Len(st.elems[e].levels) : e \in DOMAIN st.elems} \cup {Len(st.levels)}
    IN  CHOOSE m \in hs : \A h \in hs : h <= m
Fuel(st) == (Cardinality(DOMAIN st.elems) + 2) * (MaxHeight(st) + 2)

\* ---- findNext --------------------------------------------------------------
\* the level-skipping loop: the first j <= i with ph.levels[j] # topLevel, or -1
RECURSIVE findSkipLevels(_, _, _, _)
findSkipLevels(st, ph, i, topLevel) ==
    IF i >= 0 /\ HLevels(st, ph)[i + 1] = topLevel
    THEN findSkipLevels(st, ph, i - 1, topLevel)
    ELSE i

RECURSIVE findLoop(_, _, _, _, _, _)
findLoop(st, key, prevHeader, i, elem, fuel) ==
    IF i < 0 THEN Ok(st, elem)
    ELSE IF fuel = 0 THEN Fail(st, "hang")
    ELSE IF i >= Len(HLevels(st, prevHeader)) THEN Fail(st, "panic")
    ELSE LET next == HLevels(st, prevHeader)[i + 1] IN
         IF next = Nil
         THEN findLoop(st, key, prevHeader,
                       findSkipLevels(st, prevHeader, i - 1, next), elem, fuel - 1)
         ELSE LET comp == compare(st, key, next) IN
              IF comp = 0 THEN Ok(st, next)
              ELSE IF comp < 0
              THEN findLoop(st, key, prevHeader,
                            findSkipLevels(st, prevHeader, i - 1, next), next, fuel - 1)
              ELSE findLoop(st, key, next, i, elem, fuel - 1)

\* a bug: a start whose key equals the searched key is not returned at once
notAfterStart_strict(st, start, key) == compare(st, key, start) < 0
\* the test `list.compare(key, start) <= 0` of the fast path
notAfterStart(st, start, key) == compare(st, key, start) <= 0

\* a bug: the key of Back() itself is taken to lie beyond the list
beyondBack_inclusive(st, key) == compare(st, key, Back(st)) >= 0
\* the test `list.compare(key, list.Back()) > 0` of the fast path
beyondBack(st, key) == compare(st, key, Back(st)) > 0

findNext(st, start, key) ==
    IF st.length = 0 THEN Ok(st, Nil)
    ELSE IF start = Nil /\ Front(st) = Nil THEN Fail(st, "panic")
    ELSE IF start = Nil /\ notAfterStart(st, Front(st), key) THEN Ok(st, Front(st))
    ELSE IF start # Nil /\ notAfterStart(st, start, key) THEN Ok(st, start)
    ELSE IF Back(st) = Nil THEN Fail(st, "panic")
    ELSE IF beyondBack(st, key) THEN Ok(st, Nil)
    ELSE LET prevHeader == IF start = Nil THEN ListHeader ELSE start
         IN  findLoop(st, key, prevHeader, Len(HLevels(st, prevHeader)) - 1,
                      Nil, Fuel(st))

FindNext(st, start, key) == findNext(st, start, key)

Find(st, key) == FindNext(st, Nil, key)

Get(st, key) ==
    LET r == findNext(st, Nil, key) IN
    IF r.status # "ok" THEN r
    ELSE IF r.ret = Nil THEN Ok(st, Nil)
    ELSE IF compare(st, key, r.ret) # 0 THEN Ok(st, Nil)
    ELSE Ok(st, r.ret)

\* the zero value of V, returned with ok = false
ZeroValue == 0

\* GetValue returns (val, ok)
GetValue(st, key) ==
    LET g == Get(st, key) IN
    IF g.status # "ok" THEN g
    ELSE IF g.ret = Nil THEN Ok(st, [val |-> ZeroValue, ok |-> FALSE])
    ELSE Ok(st, [val |-> st.elems[g.ret].Value, ok |-> TRUE])

\* a bug: an absent key yields the zero value instead of a panic
MustGetValue_soft(st, key) ==
    LET g == Get(st, key) IN
    IF g.status # "ok" THEN g
    ELSE IF g.ret = Nil THEN Ok(st, ZeroValue)
    ELSE Ok(st, st.elems[g.ret].Value)

MustGetValue(st, key) ==
    LET g == Get(st, key) IN
    IF g.status # "ok" THEN g
    ELSE IF g.ret = Nil THEN Fail(st, "panic")
    ELSE Ok(st, st.elems[g.ret].Value)

\* ---- Set ------------------------------------------------------------------
\* list.randLevel(): 1 <= level <= list.maxLevel, every such level can be drawn
RandLevels(st) == 1..st.maxLevel

\* randLevel() for a uniform draw r that lies below probTable[j] exactly for the
\* exponents j <= d; the table holds the exponents, its first entry is 1 > r
RECURSIVE randLevelLoop(_, _, _)
randLevelLoop(st, d, level) ==
    IF level >= st.maxLevel THEN Ok(st, level)
    ELSE IF level >= Len(st.probTable) THEN Fail(st, "panic")
    ELSE IF st.probTable[level + 1] <= d THEN randLevelLoop(st, d, level + 1)
    ELSE Ok(st, level)

\* a bug: the loop does not stop at maxLevel
randLevel_noCeiling(st, d) == Ok(st, d + 1)

randLevel(st, d) == randLevelLoop(st, d, 1)

\* the draws that tell the levels apart
Draws(st) == 0..st.maxLevel

\* the address the allocator hands out for a new element holding key
NewAddr(st, key) ==
    LET g == CHOOSE g \in 0..Cardinality(DOMAIN st.elems) :
                 /\ key + MaxKey * g \notin DOMAIN st.elems
                 /\ \A h \in 0..g - 1 : key + MaxKey * h \in DOMAIN st.elems
    IN  key + MaxKey * g

alloc(st, level, key, value) ==
    [st EXCEPT !.elems =
        [a \in DOMAIN st.elems \cup {NewAddr(st, key)} |->
            IF a \in DOMAIN st.elems THEN st.elems[a]
            ELSE newElement(ThisList, level, key, value)]]

\* for i := 0; i < level; i++ { list.levels[i] = elem }
fillHeader(st, e, level) ==
    [st EXCEPT !.levels = [i \in 1..Len(st.levels) |->
                              IF i <= level THEN e ELSE st.levels[i]]]

setBackTo(st, e) == [st EXCEPT !.back = e]

\* a bug: the insertion forgets list.length++
incLength_none(st) == st

incLength(st) == [st EXCEPT !.length = @ + 1]

\* the happy path for an empty list
setEmpty(st, key, value, level) ==
    LET e == NewAddr(st, key)
        s1 == fillHeader(alloc(st, level, key, value), e, level)
    IN  IF level > Len(st.levels) THEN Fail(s1, "panic")
        ELSE Ok(incLength(setBackTo(s1, e)), e)

\* the level-skipping loop of the search: records prevHeader on skipped levels
RECURSIVE setSkipLevels(_, _, _, _, _)
setSkipLevels(st, ph, i, topLevel, prevs) ==
    IF i >= 0 /\ HLevels(st, ph)[i + 1] = topLevel
    THEN setSkipLevels(st, ph, i - 1, topLevel, [prevs EXCEPT ![i + 1] = ph])
    ELSE [i |-> i, prevs |-> prevs]

\* find out previous elements on every level; found # Nil when the key exists
RECURSIVE searchPrev(_, _, _, _, _, _)
searchPrev(st, key, prevHeader, i, prevs, fuel) ==
    IF i < 0 THEN [found |-> Nil, prevs |-> prevs, status |-> "ok"]
    ELSE IF fuel = 0 THEN [found |-> Nil, prevs |-> prevs, status |-> "hang"]
    ELSE IF i >= Len(HLevels(st, prevHeader))
    THEN [found |-> Nil, prevs |-> prevs, status |-> "panic"]
    ELSE LET p1 == [prevs EXCEPT ![i + 1] = prevHeader]
             next == HLevels(st, prevHeader)[i + 1]
         IN  IF next # Nil /\ compare(st, key, next) = 0
             THEN [found |-> next, prevs |-> p1, status |-> "ok"]
             ELSE IF next # Nil /\ compare(st, key, next) > 0
             THEN searchPrev(st, key, next, i, p1, fuel - 1)
             ELSE LET sk == setSkipLevels(st, prevHeader, i - 1, next, p1)
                  IN  searchPrev(st, key, prevHeader, sk.i, sk.prevs, fuel - 1)

\* a bug: the update path returns the element without storing the value
updateValue_none(st, e, value) == st

updateValue(st, e, value) == [st EXCEPT !.elems[e].Value = value]

setPrev(st, e, prevs) ==
    IF prevs[1] # ListHeader THEN [st EXCEPT !.elems[e].prev = prevs[1]] ELSE st

setPrevTopLevel(st, e, prevs, level) ==
    IF prevs[level] # ListHeader
    THEN [st EXCEPT !.elems[e].prevTopLevel = prevs[level]] ELSE st

\* a bug: the forward reference of a preceding element is never written
setHLevel_headerOnly(st, h, i, v) ==
    IF h = ListHeader THEN [st EXCEPT !.levels[i + 1] = v] ELSE st

setHLevel(st, h, i, v) ==
    IF h = ListHeader THEN [st EXCEPT !.levels[i + 1] = v]
    ELSE [st EXCEPT !.elems[h].levels[i + 1] = v]

RECURSIVE spliceLevels(_, _, _, _, _)
spliceLevels(st, e, prevs, i, level) ==
    IF i >= level THEN st
    ELSE LET s1 == [st EXCEPT !.elems[e].levels[i + 1] =
                                  HLevels(st, prevs[i + 1])[i + 1]]
         IN  spliceLevels(setHLevel(s1, prevs[i + 1], i, e), e, prevs, i + 1, level)

largestLevelOf(st, e, level) ==
    LET used == {i \in 1..level : st.elems[e].levels[i] # Nil}
    IN  IF used = {} THEN 0 ELSE CHOOSE i \in used : \A j \in used : j <= i

\* a bug: the element after the new one keeps its old prev
setNextPrev_none(st, e) == st

setNextPrev(st, e) ==
    LET next == st.elems[e].levels[1]
    IN  IF next # Nil THEN [st EXCEPT !.elems[next].prev = e] ELSE st

RECURSIVE setNextTopLevels(_, _, _, _, _, _)
setNextTopLevels(st, e, i, largestLevel, level, fuel) ==
    IF i >= largestLevel THEN Ok(st, e)
    ELSE IF fuel = 0 THEN Fail(st, "hang")
    ELSE LET next == st.elems[e].levels[i + 1] IN
         IF next = Nil THEN Fail(st, "panic")
         ELSE LET nextLevel == Level(st, next)
                  s1 == IF nextLevel <= level
                        THEN [st EXCEPT !.elems[next].prevTopLevel = e] ELSE st
              IN  setNextTopLevels(s1, e, nextLevel, largestLevel, level, fuel - 1)

setBackIfLast(st, e) == IF ElemNext(st, e) = Nil THEN setBackTo(st, e) ELSE st

setInsert(st, key, value, level, prevs) ==
    LET e == NewAddr(st, key)
        s1 == setPrev(alloc(st, level, key, value), e, prevs)
    IN  IF level > Len(prevs) THEN Fail(s1, "panic")
        ELSE LET s2 == spliceLevels(setPrevTopLevel(s1, e, prevs, level),
                                    e, prevs, 0, level)
                 r == setNextTopLevels(setNextPrev(s2, e), e, 0,
                                       largestLevelOf(s2, e, level), level, Fuel(s2))
             IN  IF r.status # "ok" THEN r
                 ELSE Ok(incLength(setBackIfLast(r.st, e)), e)

Set(st, key, value, level) ==
    IF st.length = 0 THEN setEmpty(st, key, value, level)
    ELSE LET max == Len(st.levels)
             sr == searchPrev(st, key, ListHeader, max - 1,
                              [i \in 1..max |-> Nil], Fuel(st))
         IN  IF sr.status # "ok" THEN Fail(st, sr.status)
             ELSE IF sr.found # Nil THEN Ok(updateValue(st, sr.found, value), sr.found)
             ELSE setInsert(st, key, value, level, sr.prevs)

\* ---- RemoveElement -----------------------------------------------------------
\* for prev = prev.prevTopLevel; prev != nil && prev.Level() == prevLevel; ...
\* returns the element reached, or ListHeader when the walk never ends
RECURSIVE skipSameLevel(_, _, _, _)
skipSameLevel(st, prev, prevLevel, fuel) ==
    IF fuel = 0 THEN ListHeader
    ELSE IF prev # Nil /\ Level(st, prev) = prevLevel
    THEN skipSameLevel(st, st.elems[prev].prevTopLevel, prevLevel, fuel - 1)
    ELSE prev

\* find out all previous elements: prevElems[0..max)
RECURSIVE findPrevElems(_, _, _, _, _, _)
findPrevElems(st, level, prev, max, prevElems, fuel) ==
    IF prev = Nil \/ max >= level
    THEN [max |-> max, prevElems |-> prevElems, status |-> "ok"]
    ELSE IF fuel = 0 THEN [max |-> max, prevElems |-> prevElems, status |-> "hang"]
    ELSE LET prevLevel == Level(st, prev)
             top == Min(prevLevel, level)
             pe == [j \in 1..level |->
                       IF j > max /\ j <= top THEN prev ELSE prevElems[j]]
             nxt == skipSameLevel(st, st.elems[prev].prevTopLevel, prevLevel, fuel)
         IN  IF nxt = ListHeader
             THEN [max |-> max, prevElems |-> pe, status |-> "hang"]
             ELSE findPrevElems(st, level, nxt, IF top > max THEN top ELSE max,
                                pe, fuel - 1)

\* for i := 0; i < max; i++ { prevElems[i].levels[i] = elem.levels[i] }
RECURSIVE unlinkPrevs(_, _, _, _, _)
unlinkPrevs(st, elem, prevElems, i, max) ==
    IF i >= max THEN st
    ELSE unlinkPrevs(setHLevel(st, prevElems[i + 1], i, st.elems[elem].levels[i + 1]),
                     elem, prevElems, i + 1, max)

\* for i := max; i < level; i++ { list.levels[i] = elem.levels[i] }
RECURSIVE unlinkHeader(_, _, _, _)
unlinkHeader(st, elem, i, level) ==
    IF i >= level THEN Ok(st, Nil)
    ELSE IF i >= Len(st.levels) THEN Fail(st, "panic")
    ELSE unlinkHeader(setHLevel(st, ListHeader, i, st.elems[elem].levels[i + 1]),
                      elem, i + 1, level)

\* a bug: the element after the removed one keeps pointing back at it
fixNextPrev_none(st, elem) == st

fixNextPrev(st, elem) ==
    LET next == ElemNext(st, elem)
    IN  IF next # Nil THEN [st EXCEPT !.elems[next].prev = st.elems[elem].prev]
        ELSE st

\* a bug: the successors keep the removed element as prevTopLevel
fixNextTopLevels_none(st, elem, i, level, prevElems, fuel) == Ok(st, Nil)

RECURSIVE fixNextTopLevels(_, _, _, _, _, _)
fixNextTopLevels(st, elem, i, level, prevElems, fuel) ==
    IF i >= level THEN Ok(st, Nil)
    ELSE IF fuel = 0 THEN Fail(st, "hang")
    ELSE LET next == st.elems[elem].levels[i + 1] IN
         IF next = Nil \/ st.elems[next].prevTopLevel # elem THEN Ok(st, Nil)
         ELSE LET ni == Level(st, next) IN
              IF ni < 1 \/ ni > level THEN Fail(st, "panic")
              ELSE fixNextTopLevels(
                       [st EXCEPT !.elems[next].prevTopLevel = prevElems[ni]],
                       elem, ni, level, prevElems, fuel - 1)

\* a bug: list.back is left on the removed element
fixBack_none(st, elem) == st

fixBack(st, elem) ==
    IF st.back = elem THEN [st EXCEPT !.back = st.elems[elem].prev] ELSE st

\* a bug: the removal forgets list.length--
decLength_none(st) == st

decLength(st) == [st EXCEPT !.length = @ - 1]

\* the ownership test at the top of RemoveElement
Owned(st, elem) == elem # Nil /\ st.elems[elem].list = ThisList

\* level := elem.Level() and the loop that finds out all previous elements
removeSearch(st, elem) ==
    LET level == Level(st, elem)
        pr == findPrevElems(st, level, st.elems[elem].prev, 0,
                            [j \in 1..level |-> Nil], Fuel(st))
    IN  [level |-> level, prevElems |-> pr.prevElems, max |-> pr.max,
         status |-> pr.status]

\* RemoveElement from the adjustment of the previous elements up to list.length--
unlinkWith(st, elem, pr) ==
    IF pr.status # "ok" THEN Fail(st, pr.status)
    ELSE LET r1 == unlinkHeader(unlinkPrevs(st, elem, pr.prevElems, 0, pr.max),
                                elem, pr.max, pr.level)
         IN  IF r1.status # "ok" THEN r1
             ELSE LET r2 == fixNextTopLevels(fixNextPrev(r1.st, elem), elem, 0,
                                             pr.level, pr.prevElems, Fuel(st))
                  IN  IF r2.status # "ok" THEN r2
                      ELSE Ok(decLength(fixBack(r2.st, elem)), Nil)

\* RemoveElement of an owned element, up to list.length--
unlinkElement(st, elem) == unlinkWith(st, elem, removeSearch(st, elem))

RemoveElement(st, elem) ==
    IF ~Owned(st, elem) THEN Ok(st, Nil)
    ELSE LET u == unlinkElement(st, elem)
         IN  IF u.status # "ok" THEN u ELSE Ok(reset(u.st, elem), Nil)

\* a bug: Remove looks the key up with Find and removes the ceiling element
Remove_ceiling(st, key) ==
    LET g == Find(st, key) IN
    IF g.status # "ok" \/ g.ret = Nil THEN g
    ELSE LET r == RemoveElement(st, g.ret)
         IN  [r EXCEPT !.ret = g.ret]

Remove(st, key) ==
    LET g == Get(st, key) IN
    IF g.status # "ok" \/ g.ret = Nil THEN g
    ELSE LET r == RemoveElement(st, g.ret)
         IN  [r EXCEPT !.ret = g.ret]

\* a bug: the front is read after the removal
RemoveFront_late(st) ==
    IF st.length = 0 THEN Ok(st, Nil)
    ELSE LET r == RemoveElement(st, Front(st))
         IN  [r EXCEPT !.ret = Front(r.st)]

RemoveFront(st) ==
    IF st.length = 0 THEN Ok(st, Nil)
    ELSE LET r == RemoveElement(st, Front(st))
         IN  [r EXCEPT !.ret = Front(st)]

RemoveBack(st) ==
    IF st.length = 0 THEN Ok(st, Nil)
    ELSE LET r == RemoveElement(st, st.back)
         IN  [r EXCEPT !.ret = st.back]

\* a bug: the header array is kept as it is
ListInit_keepLevels(st) == Ok([st EXCEPT !.back = Nil, !.length = 0], Nil)

\* Init resets the list; the elements it held are not touched
ListInit(st) ==
    Ok([st EXCEPT !.back = Nil, !.length = 0,
                  !.levels = [i \in 1..Len(st.levels) |-> Nil], !.spare = <<>>],
       Nil)

\* ---- SetMaxLevel ---------------------------------------------------------------
\* probabilityTable(DefaultProbability, MaxLevel): entry i is probability^(i-1)
probabilityTable(MaxLevel) == [i \in 1..MaxLevel |-> i - 1]

\* cap(list.levels)
Cap(st) == Len(st.levels) + Len(st.spare)

\* list.levels = list.levels[:n] for n <= cap(list.levels)
reslice(st, n) ==
    LET all == st.levels \o st.spare
    IN  [st EXCEPT !.levels = SubSeq(all, 1, n), !.spare = SubSeq(all, n + 1, Len(all))]

\* for i := old - 1; i >= level; i-- { if list.levels[i] != nil { level = i; break } }
shrinkLevel(st, old, level) ==
    LET used == {i \in level..old - 1 : st.levels[i + 1] # Nil}
    IN  IF used = {} THEN level ELSE CHOOSE i \in used : \A j \in used : j <= i

\* a bug: the new header array starts empty
growLevels_fresh(st, level) ==
    [st EXCEPT !.levels = [i \in 1..level |-> Nil], !.spare = <<>>]

\* levels := make([]*Element, level); copy(levels, list.levels); list.levels = levels
growLevels(st, level) ==
    [st EXCEPT !.levels = [i \in 1..level |->
                              IF i <= Len(st.levels) THEN st.levels[i] ELSE Nil],
               !.spare = <<>>]

SetMaxLevel(st, level) ==
    IF level <= 0 THEN Fail(st, "panic")
    ELSE LET s1 == [st EXCEPT !.probTable = probabilityTable(level),
                              !.maxLevel = level]
             old == Len(st.levels)
         IN  IF level = old THEN Ok(s1, old)
             ELSE IF old > level THEN Ok(reslice(s1, shrinkLevel(s1, old, level)), old)
             ELSE IF level <= Cap(s1) THEN Ok(reslice(s1, level), old)
             ELSE Ok(growLevels(s1, level), old)

MaxLevel(st) == st.maxLevel

\* ---- the reference ordered map ---------------------------------------------
EmptyRef == [k \in {} |-> Nil]

Stored == DOMAIN ref

RefSet(k, v, e) ==
    [x \in Stored \cup {k} |->
        IF x = k THEN [val |-> v, elem |-> IF k \in Stored THEN ref[k].elem ELSE e]
        ELSE ref[x]]

RefRemove(ks) == [x \in Stored \ ks |-> ref[x]]

RefMin == {k \in Stored : \A j \in Stored : k <= j}
RefMax == {k \in Stored : \A j \in Stored : k >= j}
RefHolder(e) == {k \in Stored : ref[k].elem = e}

\* ---- SafeSkipList: the lock and the threads ---------------------------------
Threads == 1..MaxThreads

\* the zero value of sync.RWMutex: nobody holds it
Unlocked == 0

\* no accessor call is under way
NoAccess ==
    [pc |-> "idle", elem |-> Nil, kind |-> "none", level |-> 0, seen |-> <<>>,
     pre |-> Nil, ret |-> Nil]

\* a thread outside every wrapper call
Idle == [phase |-> "idle", m |-> "none", arg |-> Nil]

\* ---- the state machine -------------------------------------------------------
\* an element of some other list, held by the caller: other.Set(1, 1)
ForeignElem == newElement(OtherList, 1, 1, 1)

Init ==
    /\ elems = [a \in {ForeignAddr} |-> ForeignElem]
    /\ levels = [i \in 1..DefaultMaxLevel |-> Nil]
    /\ spare = <<>>
    /\ maxLevel = DefaultMaxLevel
    /\ probTable = probabilityTable(DefaultMaxLevel)
    /\ length = 0
    /\ back = Nil
    /\ panicked = FALSE
    /\ ref = EmptyRef
    /\ lockW = Unlocked
    /\ lockR = {}
    /\ thr = [t \in Threads |-> Idle]
    /\ acc = NoAccess

\* the call returns (or aborts) with result r; the reference map moves to newRef
ApplyList(r, newRef) ==
    /\ elems' = r.st.elems
    /\ levels' = r.st.levels
    /\ spare' = r.st.spare
    /\ maxLevel' = r.st.maxLevel
    /\ probTable' = r.st.probTable
    /\ length' = r.st.length
    /\ back' = r.st.back
    /\ panicked' = (r.status # "ok")
    /\ ref' = IF r.status = "ok" THEN newRef ELSE ref

\* a call made on the list directly, by the one thread there is
Apply(r, newRef) == ApplyList(r, newRef) /\ UNCHANGED lockVars

\* Set calls randLevel() unless it finds the key: only then is a level drawn
DrawsLevel(st, key) ==
    \/ st.length = 0
    \/ searchPrev(st, key, ListHeader, Len(st.levels) - 1,
                  [i \in 1..Len(st.levels) |-> Nil], Fuel(st)).found = Nil

SetA ==
    /\ ~panicked
    /\ \E key \in KeySet, value \in ValueSet :
       \E level \in (IF DrawsLevel(S, key) THEN RandLevels(S) ELSE {1}) :
          LET r == Set(S, key, value, level) IN
          /\ Cardinality(DOMAIN r.st.elems) <= MaxElems + 1
          /\ Apply(r, RefSet(key, value, r.ret))

RemoveA ==
    /\ ~panicked
    /\ \E key \in QueryKeys : Apply(Remove(S, key), RefRemove({key}))

RemoveFrontA ==
    /\ ~panicked
    /\ Apply(RemoveFront(S), RefRemove(RefMin))

RemoveBackA ==
    /\ ~panicked
    /\ Apply(RemoveBack(S), RefRemove(RefMax))

\* the caller may hold nil, a stored element, a removed one or a foreign one
RemoveElementA ==
    /\ ~panicked
    /\ \E elem \in {Nil} \cup DOMAIN elems :
          Apply(RemoveElement(S, elem), RefRemove(RefHolder(elem)))

InitA ==
    /\ ~panicked
    /\ Apply(ListInit(S), EmptyRef)

\* the levels a caller asks for: non-positive ones, the ones the header array
\* can hold, and one beyond its capacity
LevelRequests == -1..DefaultMaxLevel + 1

SetMaxLevelA ==
    /\ ~panicked
    /\ \E level \in LevelRequests : Apply(SetMaxLevel(S, level), ref)

Next == SetA \/ RemoveA \/ RemoveFrontA \/ RemoveBackA \/ RemoveElementA

Spec == Init /\ [][Next]_vars

NextInit == Next \/ InitA

SpecInit == Init /\ [][NextInit]_vars

\* ---- lists whose maximum level is changed -------------------------------------
\* Set, while the list has allocated fewer than MaxResizeElems elements
SetFewA ==
    /\ ~panicked
    /\ \E key \in KeySet, value \in ValueSet :
       \E level \in (IF DrawsLevel(S, key) THEN RandLevels(S) ELSE {1}) :
          LET r == Set(S, key, value, level) IN
          /\ Cardinality(DOMAIN r.st.elems) <= MaxResizeElems + 1
          /\ Apply(r, RefSet(key, value, r.ret))

NextLevels ==
    \/ SetFewA \/ RemoveA \/ RemoveFrontA \/ RemoveBackA \/ RemoveElementA
    \/ SetMaxLevelA

SpecLevels == Init /\ [][NextLevels]_vars

\* ---- Set, Remove, RemoveFront, RemoveBack and SetMaxLevel(n) with n > 0 ----------
ValidLevelRequests == {n \in LevelRequests : n > 0}

SetMaxLevelValidA ==
    /\ ~panicked
    /\ \E level \in ValidLevelRequests : Apply(SetMaxLevel(S, level), ref)

NextResize ==
    \/ SetA \/ RemoveA \/ RemoveFrontA \/ RemoveBackA \/ SetMaxLevelValidA

SpecResize == Init /\ [][NextResize]_vars

\* ---- every engine operation, each with arguments it accepts ---------------------
\* RemoveElement of an element the list stores
RemoveStoredElementA ==
    /\ ~panicked
    /\ \E k \in Stored :
          Apply(RemoveElement(S, ref[k].elem), RefRemove({k}))

NextValid == NextResize \/ RemoveStoredElementA \/ InitA

SpecValid == Init /\ [][NextValid]_vars

\* ---- SafeSkipList: every method is lock, deferred unlock, engine call ----------
\* the lock call each wrapper method opens with
LockOf_allShared(m) == "RLock"

LockOf(m) ==
    CASE m = "Init" -> "Lock"
      [] m = "SetRandSource" -> "Lock"
      [] m = "Front" -> "RLock"
      [] m = "Back" -> "RLock"
      [] m = "Len" -> "RLock"
      [] m = "Set" -> "Lock"
      [] m = "FindNext" -> "RLock"
      [] m = "Find" -> "RLock"
      [] m = "Get" -> "RLock"
      [] m = "GetValue" -> "RLock"
      [] m = "MustGetValue" -> "RLock"
      [] m = "Remove" -> "Lock"
      [] m = "RemoveFront" -> "Lock"
      [] m = "RemoveBack" -> "Lock"
      [] m = "RemoveElement" -> "Lock"
      [] m = "MaxLevel" -> "RLock"
      [] m = "Values" -> "RLock"
      [] m = "Keys" -> "RLock"
      [] m = "SetMaxLevel" -> "Lock"

\* sync.RWMutex: Lock waits for the writer and for every reader to leave
CanLock_overReaders == lockW = Unlocked

CanLock == lockW = Unlocked /\ lockR = {}

\* a bug: RLock does not wait for the writer
CanRLock_always == TRUE

\* RLock waits for the writer only
CanRLock == lockW = Unlocked

\* list.lock.Lock() / list.lock.RLock() of method m returns in thread t
Acquire(t, m) ==
    IF LockOf(m) = "Lock"
    THEN CanLock /\ lockW' = t /\ lockR' = lockR
    ELSE CanRLock /\ lockR' = lockR \cup {t} /\ lockW' = lockW

\* the deferred list.lock.Unlock() / list.lock.RUnlock() of method m
Release(t, m) ==
    IF LockOf(m) = "Lock"
    THEN lockW' = Unlocked /\ lockR' = lockR
    ELSE lockR' = lockR \ {t} /\ lockW' = lockW

\* the engine methods that assign fields of the list or of its elements
EngineWrites ==
    {"Init", "SetRandSource", "Set", "Remove", "RemoveFront", "RemoveBack",
     "RemoveElement", "SetMaxLevel"}

\* thread t is in engine code together with another thread, and one of the
\* two writes what the other reads or writes: a data race
Races(t) ==
    \E u \in Threads \ {t} :
        /\ thr[u].phase = "engine"
        /\ thr[t].m \in EngineWrites \/ thr[u].m \in EngineWrites

\* what a call c = [r, ref] can come to: its own result, or under a data race
\* also a lost write or a crash
Outcomes(t, c) ==
    IF Races(t)
    THEN {c, [r |-> Ok(S, Nil), ref |-> c.ref], [r |-> Fail(S, "panic"), ref |-> c.ref]}
    ELSE {c}

\* thread t enters wrapper method m: the lock call returns, the engine call begins
Enter(t, m, arg) ==
    /\ thr[t].phase = "idle"
    /\ Acquire(t, m)
    /\ thr' = [thr EXCEPT ![t] = [phase |-> "engine", m |-> m, arg |-> arg]]
    /\ UNCHANGED <<listVars, acc>>

\* the engine call of thread t returns as one of calls, the deferred unlock runs
Leave(t, calls, phase) ==
    /\ thr[t].phase = "engine"
    /\ \E c \in calls : \E o \in Outcomes(t, c) : ApplyList(o.r, o.ref)
    /\ Release(t, thr[t].m)
    /\ thr' = [thr EXCEPT ![t] = IF phase = "idle" THEN Idle
                                  ELSE [thr[t] EXCEPT !.phase = phase]]
    /\ UNCHANGED acc

\* list.SkipList.Set(key, value) for each of values and every level it can draw
SetCalls(key, values) ==
    {[r |-> Set(S, key, x[1], x[2]), ref |-> RefSet(key, x[1], Set(S, key, x[1], x[2]).ret)] :
        x \in {y \in values \X RandLevels(S) : DrawsLevel(S, key) \/ y[2] = 1}}

\* ---- SafeSkipList: what each method hands back, the lock left aside ---------------
SafeInit(st) == ListInit(st)
SafeFront(st) == Ok(st, Front(st))
SafeBack(st) == Ok(st, Back(st))
SafeLen(st) == Ok(st, ListLen(st))
SafeSet(st, key, value, level) == Set(st, key, value, level)
SafeFindNext(st, start, key) == FindNext(st, start, key)
SafeFind(st, key) == Find(st, key)
SafeGet(st, key) == Get(st, key)
SafeGetValue(st, key) == GetValue(st, key)
SafeMustGetValue(st, key) == MustGetValue(st, key)
SafeRemove(st, key) == Remove(st, key)
SafeRemoveFront(st) == RemoveFront(st)
SafeRemoveBack(st) == RemoveBack(st)
SafeRemoveElement(st, elem) == RemoveElement(st, elem)
\* return list.maxLevel
SafeMaxLevel(st) == Ok(st, st.maxLevel)

\* the result of an int function that never assigns its named result
ZeroInt == 0

\* list.SkipList.SetMaxLevel(level); return -- the named result old is never
\* assigned
SafeSetMaxLevel(st, level) ==
    LET r == SetMaxLevel(st, level)
    IN  IF r.status = "ok" THEN Ok(r.st, ZeroInt) ELSE r

\* ---- concurrent Sets of distinct keys ------------------------------------------
\* the keys of the calls made so far
KeysCalled == {thr[u].arg : u \in {v \in Threads : thr[v].phase # "idle"}}

SafeSetCallA ==
    /\ ~panicked
    /\ \E t \in Threads, key \in KeySet \ KeysCalled : Enter(t, "Set", key)

SafeSetReturnA ==
    /\ ~panicked
    /\ \E t \in Threads : Leave(t, SetCalls(thr[t].arg, ValueSet), "done")

NextSafeSet == SafeSetCallA \/ SafeSetReturnA

SpecSafeSet == Init /\ [][NextSafeSet]_vars

\* ---- every wrapper method, called by every thread again and again ---------------
WrapperMethods ==
    {"Init", "SetRandSource", "Front", "Back", "Len", "Set", "FindNext", "Find",
     "Get", "GetValue", "MustGetValue", "Remove", "RemoveFront", "RemoveBack",
     "RemoveElement", "MaxLevel", "Values", "Keys", "SetMaxLevel"}

\* the arguments of these runs: one key to set and one beside it, the levels
\* that shrink the header and restore it
LockRunKeys == {MaxKey}
LockRunQueries == {MaxKey - 1, MaxKey}
LockRunLevels == {1, DefaultMaxLevel}

\* a lookup hands its result to the caller and leaves the list as it is
Looked(r) == [r |-> [st |-> S, ret |-> Nil, status |-> r.status], ref |-> ref]

\* the engine call behind wrapper method m, for each of its arguments
WrapCalls(m) ==
    CASE m = "Init" -> {[r |-> ListInit(S), ref |-> EmptyRef]}
      [] m = "SetRandSource" -> {[r |-> Ok(S, Nil), ref |-> ref]}
      [] m = "Front" -> {Looked(Ok(S, Front(S)))}
      [] m = "Back" -> {Looked(Ok(S, Back(S)))}
      [] m = "Len" -> {Looked(Ok(S, ListLen(S)))}
      [] m = "Set" -> UNION {SetCalls(key, {MaxVal}) : key \in LockRunKeys}
      [] m = "FindNext" ->
            {Looked(FindNext(S, start, key)) :
                start \in {Nil} \cup {e \in DOMAIN elems : Owned(S, e)},
                key \in LockRunQueries}
      [] m = "Find" -> {Looked(Find(S, key)) : key \in LockRunQueries}
      [] m = "Get" -> {Looked(Get(S, key)) : key \in LockRunQueries}
      [] m = "GetValue" -> {Looked(GetValue(S, key)) : key \in LockRunQueries}
      [] m = "MustGetValue" -> {Looked(MustGetValue(S, key)) : key \in LockRunQueries}
      [] m = "Remove" ->
            {[r |-> Remove(S, key), ref |-> RefRemove({key})] : key \in LockRunQueries}
      [] m = "RemoveFront" -> {[r |-> RemoveFront(S), ref |-> RefRemove(RefMin)]}
      [] m = "RemoveBack" -> {[r |-> RemoveBack(S), ref |-> RefRemove(RefMax)]}
      [] m = "RemoveElement" ->
            {[r |-> RemoveElement(S, elem), ref |-> RefRemove(RefHolder(elem))] :
                elem \in {Nil} \cup DOMAIN elems}
      [] m = "MaxLevel" -> {Looked(Ok(S, MaxLevel(S)))}
      [] m = "Values" -> {Looked(Ok(S, Nil))}
      [] m = "Keys" -> {Looked(Ok(S, Nil))}
      [] m = "SetMaxLevel" ->
            {[r |-> SetMaxLevel(S, level), ref |-> ref] : level \in LockRunLevels}

\* a thread calls a method; Set while fewer than MaxResizeElems were allocated
SafeCallA ==
    /\ ~panicked
    /\ \E t \in Threads, m \in WrapperMethods :
          /\ m = "Set" => Cardinality(DOMAIN elems) <= MaxResizeElems
          /\ Enter(t, m, Nil)

SafeReturnA ==
    /\ ~panicked
    /\ \E t \in Threads : Leave(t, WrapCalls(thr[t].m), "idle")

NextSafe == SafeCallA \/ SafeReturnA

SpecSafe == Init /\ [][NextSafe]_vars

\* ---- an Element accessor called while the element is being removed --------------
\* The accessors of Element take no lock. SafeSkipList.RemoveElement holds the
\* exclusive lock, which the accessor never asks for, so the reads of the
\* accessor and the writes of the removal are unordered: a data race. The
\* removal is split where the accessor can tell the difference: the part that
\* writes the neighbours and the list, then the four assignments of reset().
AccessorKinds == {"Next", "Prev", "NextLevel", "PrevLevel", "Level"}

NoCallRuns == \A t \in Threads : thr[t] = Idle

\* Set through the wrapper, while no other call and no accessor is running
RaceSetA ==
    /\ NoCallRuns
    /\ acc.pc # "reading"
    /\ SetA

\* a thread calls SafeSkipList.RemoveElement(elem) for a stored element
RaceRemoveCallA ==
    /\ ~panicked
    /\ \E t \in Threads, elem \in {e \in DOMAIN elems : Owned(S, e)} :
          Enter(t, "RemoveElement", elem)

\* the removal writes the neighbours, the header, back and length
RaceUnlinkA ==
    /\ ~panicked
    /\ \E t \in Threads :
          /\ thr[t].phase = "engine" /\ thr[t].m = "RemoveElement"
          /\ ApplyList(unlinkElement(S, thr[t].arg), RefRemove(RefHolder(thr[t].arg)))
          /\ thr' = [thr EXCEPT ![t].phase = "reset1"]
          /\ UNCHANGED <<lockW, lockR, acc>>

ResetPhases == <<"reset1", "reset2", "reset3", "reset4">>

\* one assignment of elem.reset(); after the last one the deferred unlock runs
RaceResetA ==
    /\ ~panicked
    /\ \E t \in Threads, i \in 1..Len(ResetPhases) :
          /\ thr[t].phase = ResetPhases[i]
          /\ ApplyList(Ok(resetStep(S, thr[t].arg, i), Nil), ref)
          /\ IF i < Len(ResetPhases)
             THEN /\ thr' = [thr EXCEPT ![t].phase = ResetPhases[i + 1]]
                  /\ UNCHANGED <<lockW, lockR>>
             ELSE /\ thr' = [thr EXCEPT ![t] = Idle]
                  /\ Release(t, thr[t].m)
          /\ UNCHANGED acc

\* the accessor has its result
Returned(a, ret) == [a EXCEPT !.pc = "returned", !.ret = ret]

\* the caller holds a stored element and calls an accessor on it; the call
\* makes its first read: Prev() and Level() are done with it, the others have
\* read len(elem.levels) and return nil when that rules the level out
AccessCallA ==
    /\ ~panicked
    /\ acc.pc # "reading"
    /\ \E e \in {x \in DOMAIN elems : Owned(S, x)}, kind \in AccessorKinds :
       \E level \in (IF kind \in {"NextLevel", "PrevLevel"}
                     THEN -1..Len(elems[e].levels) ELSE {0}) :
          LET a == [pc |-> "reading", elem |-> e, kind |-> kind, level |-> level,
                    seen |-> elems[e].levels,
                    pre |-> CASE kind = "Next" -> ElemNext(S, e)
                              [] kind = "Prev" -> ElemPrev(S, e)
                              [] kind = "NextLevel" -> NextLevel(S, e, level)
                              [] kind = "PrevLevel" -> PrevLevel(S, e, level)
                              [] kind = "Level" -> Level(S, e),
                    ret |-> Nil]
          IN  acc' = CASE kind = "Prev" -> Returned(a, elems[e].prev)
                       [] kind = "Level" -> Returned(a, Len(elems[e].levels))
                       [] kind = "Next" ->
                            IF Len(a.seen) = 0 THEN Returned(a, Nil) ELSE a
                       [] OTHER ->
                            IF level < 0 \/ level >= Len(a.seen)
                            THEN Returned(a, Nil) ELSE a
    /\ UNCHANGED <<listVars, lockW, lockR, thr>>

\* elem.levels[i] after the length test: the build either still has the slice
\* it loaded for the test, whose backing array reset() leaves as it was, or it
\* loads the slice again and checks i against the length it finds now
indexLevels(a, i) ==
    {[status |-> "ok", ret |-> a.seen[i + 1]]} \cup
    {IF i >= Len(elems[a.elem].levels)
     THEN [status |-> "panic", ret |-> Nil]
     ELSE [status |-> "ok", ret |-> elems[a.elem].levels[i + 1]]}

\* the rest of PrevLevel: it indexes no slice; len(elem.levels) is the length
\* loaded for the test or the one found now
restOfPrevLevel(a) ==
    {[status |-> "ok",
      ret |-> IF a.level = 0 THEN elems[a.elem].prev
              ELSE IF a.level = n - 1 THEN elems[a.elem].prevTopLevel
              ELSE prevLevelWalk(S, elems[a.elem].prev, a.level,
                                 Cardinality(DOMAIN elems) + 1)] :
        n \in {Len(a.seen), Len(elems[a.elem].levels)}}

\* the accessor goes on after the length test and returns, or aborts
AccessReturnA ==
    /\ ~panicked
    /\ acc.pc = "reading"
    /\ \E o \in (CASE acc.kind = "Next" -> indexLevels(acc, 0)
                   [] acc.kind = "NextLevel" -> indexLevels(acc, acc.level)
                   [] acc.kind = "PrevLevel" -> restOfPrevLevel(acc)) :
          /\ acc' = IF o.status = "ok" THEN Returned(acc, o.ret)
                    ELSE [acc EXCEPT !.pc = "crashed"]
          /\ panicked' = (o.status # "ok")
    /\ UNCHANGED <<elems, levels, spare, maxLevel, probTable, length, back, ref>>
    /\ UNCHANGED <<lockW, lockR, thr>>

NextRace ==
    \/ RaceSetA \/ RaceRemoveCallA \/ RaceUnlinkA \/ RaceResetA
    \/ AccessCallA \/ AccessReturnA

SpecRace == Init /\ [][NextRace]_vars

\* ---- the engine called by several threads without the wrapper -------------------
\* No lock orders the calls. Each call is split where another call can come
\* between: Set into its reads (list.length, the search for the previous
\* elements) and its writes (the update or the splice, back, length);
\* RemoveElement into the search for the previous elements and the unlinking.
\* The writes act on the list as it is then, with what the reads found before.

\* the two threads that call the engine at once
Callers == {t \in Threads : t <= 2}

\* the reads of Set(key, value)
setSearch(st, key, value) ==
    [key |-> key, value |-> value, empty |-> (st.length = 0),
     sr |-> IF st.length = 0
            THEN [found |-> Nil, prevs |-> <<>>, status |-> "ok"]
            ELSE searchPrev(st, key, ListHeader, Len(st.levels) - 1,
                            [i \in 1..Len(st.levels) |-> Nil], Fuel(st)),
     seen |-> st]

\* the writes of Set, given what its reads found
setWrite(st, a, level) ==
    IF a.empty THEN setEmpty(st, a.key, a.value, level)
    ELSE IF a.sr.status # "ok" THEN Fail(st, a.sr.status)
    ELSE IF a.sr.found # Nil
    THEN Ok(updateValue(st, a.sr.found, a.value), a.sr.found)
    ELSE IF \E i \in 0..Min(level, Len(a.sr.prevs)) - 1 :
               i >= Len(HLevels(st, a.sr.prevs[i + 1]))
    THEN Fail(st, "panic")
    ELSE setInsert(st, a.key, a.value, level, a.sr.prevs)

\* the writes of RemoveElement, given the previous elements it found
removeWrite(st, a) ==
    LET u == unlinkWith(st, a.elem, a.pr)
    IN  IF u.status # "ok" THEN u ELSE Ok(reset(u.st, a.elem), Nil)

\* the list is filled by one thread before the others start
EngineFillA ==
    /\ NoCallRuns
    /\ SetFewA

EngineSetSearchA ==
    /\ ~panicked
    /\ \E t \in Callers, key \in KeySet :
          /\ thr[t] = Idle
          /\ thr' = [thr EXCEPT ![t] = [phase |-> "searched", m |-> "Set",
                                        arg |-> setSearch(S, key, MaxVal)]]
    /\ UNCHANGED <<listVars, lockW, lockR, acc>>

\* the call has come back; stale tells whether the list had changed between
\* its reads and its writes
CameBack(t, a) ==
    [phase |-> "done", m |-> thr[t].m, arg |-> [stale |-> (a.seen # S)]]

EngineSetWriteA ==
    /\ ~panicked
    /\ \E t \in Callers :
          /\ thr[t].phase = "searched" /\ thr[t].m = "Set"
          /\ LET a == thr[t].arg IN
             \E level \in (IF a.empty \/ (a.sr.status = "ok" /\ a.sr.found = Nil)
                           THEN RandLevels(S) ELSE {1}) :
                LET r == setWrite(S, a, level) IN
                /\ ApplyList(r, RefSet(a.key, a.value, r.ret))
                /\ thr' = [thr EXCEPT ![t] = CameBack(t, a)]
    /\ UNCHANGED <<lockW, lockR, acc>>

\* one thread removes a stored element
EngineRemoveSearchA ==
    /\ ~panicked
    /\ \A u \in Callers : thr[u].m # "RemoveElement"
    /\ \E t \in Callers, elem \in {e \in DOMAIN elems : Owned(S, e)} :
          /\ thr[t] = Idle
          /\ thr' = [thr EXCEPT ![t] =
                        [phase |-> "searched", m |-> "RemoveElement",
                         arg |-> [elem |-> elem, pr |-> removeSearch(S, elem),
                                  seen |-> S]]]
    /\ UNCHANGED <<listVars, lockW, lockR, acc>>

EngineRemoveWriteA ==
    /\ ~panicked
    /\ \E t \in Callers :
          /\ thr[t].phase = "searched" /\ thr[t].m = "RemoveElement"
          /\ LET a == thr[t].arg IN
                /\ ApplyList(removeWrite(S, a), RefRemove(RefHolder(a.elem)))
                /\ thr' = [thr EXCEPT ![t] = CameBack(t, a)]
    /\ UNCHANGED <<lockW, lockR, acc>>

NextEngine ==
    \/ EngineFillA \/ EngineSetSearchA \/ EngineSetWriteA
    \/ EngineRemoveSearchA \/ EngineRemoveWriteA

SpecEngine == Init /\ [][NextEngine]_vars

\* ---- wrapper calls that wait for the lock, and return or abort -------------------
\* the level requests of these runs: one the engine refuses, and the one in force
CallLevels == {0, DefaultMaxLevel}

\* the engine call behind wrapper method m of these runs
CallsOf(m) ==
    CASE m = "SetMaxLevel" ->
            {[r |-> SetMaxLevel(S, level), ref |-> ref] : level \in CallLevels}
      [] m = "RemoveElement" ->
            {[r |-> RemoveElement(S, elem), ref |-> RefRemove(RefHolder(elem))] :
                elem \in {Nil} \cup {ref[k].elem : k \in Stored}}
      [] OTHER -> WrapCalls(m)

\* thread t, one of the callers, calls wrapper method m and stands before list.lock.Lock() / RLock()
CallA ==
    /\ ~panicked
    /\ \E t \in Callers, m \in WrapperMethods :
          /\ thr[t] = Idle
          /\ thr' = [thr EXCEPT ![t] = [phase |-> "lock", m |-> m, arg |-> Nil]]
          /\ UNCHANGED <<listVars, lockW, lockR, acc>>

\* list.lock.Lock() / list.lock.RLock() returns in thread t
LockA(t) ==
    /\ ~panicked
    /\ thr[t].phase = "lock"
    /\ Acquire(t, thr[t].m)
    /\ thr' = [thr EXCEPT ![t].phase = "engine"]
    /\ UNCHANGED <<listVars, acc>>

\* a bug: the unlock is the last statement of the method, not a deferred call
deferredUnlock_onReturn(t, m, status) ==
    IF status = "ok" THEN Release(t, m) ELSE UNCHANGED <<lockW, lockR>>

\* defer list.lock.Unlock() / defer list.lock.RUnlock(): runs when the engine
\* call has returned and when it has panicked
deferredUnlock(t, m, status) == Release(t, m)

\* the engine call of thread t returns, or panics and the panic passes to the
\* caller of the wrapper, who recovers; a call that never ends does not return
UnlockA(t) ==
    /\ ~panicked
    /\ thr[t].phase = "engine"
    /\ \E c \in CallsOf(thr[t].m) :
          /\ c.r.status # "hang"
          /\ ApplyList([c.r EXCEPT !.status = "ok"],
                       IF c.r.status = "ok" THEN c.ref ELSE ref)
          /\ deferredUnlock(t, thr[t].m, c.r.status)
          /\ thr' = [thr EXCEPT ![t] =
                        IF c.r.status = "ok"
                        THEN [phase |-> "done", m |-> "none", arg |-> Nil]
                        ELSE [phase |-> "aborted", m |-> thr[t].m, arg |-> Nil]]
    /\ UNCHANGED acc

NextCalls == CallA \/ (\E t \in Callers : LockA(t)) \/ (\E t \in Callers : UnlockA(t))

\* the scheduler runs every goroutine that can take a step: a Lock() that can
\* return does, and an engine call comes to its end
SpecCalls ==
    /\ Init /\ [][NextCalls]_vars
    /\ \A t \in Callers : WF_vars(LockA(t)) /\ WF_vars(UnlockA(t))

\* ---- calls through the wrapper, numbered as their lock calls return ---------------
\* the methods of these runs, the ones among them that take a key, and the keys
OrderMethods == {"Set", "Remove", "RemoveFront", "RemoveBack", "Get", "Len"}
KeyedMethods == {"Set", "Remove", "Get"}
OrderKeys == {MaxKey - 1, MaxKey}

\* the list NewSafe returns, beside the element of another list the caller holds
NewList ==
    [elems |-> [a \in {ForeignAddr} |-> ForeignElem],
     levels |-> [i \in 1..DefaultMaxLevel |-> Nil], spare |-> <<>>,
     maxLevel |-> DefaultMaxLevel, probTable |-> probabilityTable(DefaultMaxLevel),
     length |-> 0, back |-> Nil]

\* how many lock calls have returned so far
LockCalls == Cardinality({u \in Threads : thr[u].phase # "idle"})

\* thread t calls a method with its arguments; its lock call returns as the
\* next in order
OrderCallA ==
    /\ ~panicked
    /\ \E t \in Threads, m \in OrderMethods :
       \E key \in (IF m \in KeyedMethods THEN OrderKeys ELSE {Nil}),
          value \in (IF m = "Set" THEN ValueSet ELSE {Nil}) :
          Enter(t, m, [key |-> key, value |-> value, level |-> 0,
                       ord |-> LockCalls + 1, ret |-> Nil])

\* what wrapper method m called with a hands back on the list st, when level
\* is the level Set draws
OrderCall(st, m, a, level) ==
    CASE m = "Set" -> SafeSet(st, a.key, a.value, level)
      [] m = "Remove" -> SafeRemove(st, a.key)
      [] m = "RemoveFront" -> SafeRemoveFront(st)
      [] m = "RemoveBack" -> SafeRemoveBack(st)
      [] m = "Get" -> SafeGet(st, a.key)
      [] m = "Len" -> SafeLen(st)

\* the reference map after that call has returned r
OrderRef(m, a, r) ==
    CASE m = "Set" -> RefSet(a.key, a.value, r.ret)
      [] m = "Remove" -> RefRemove({a.key})
      [] m = "RemoveFront" -> RefRemove(RefMin)
      [] m = "RemoveBack" -> RefRemove(RefMax)
      [] OTHER -> ref

\* the levels the call can draw: only a Set that does not find its key draws
OrderLevels(m, a) ==
    IF m # "Set" THEN {0}
    ELSE IF DrawsLevel(S, a.key) THEN RandLevels(S) ELSE {1}

\* the engine call of thread t ends, the deferred unlock runs, and the caller
\* has the value returned
OrderReturnA ==
    /\ ~panicked
    /\ \E t \in Threads :
          /\ thr[t].phase = "engine"
          /\ \E level \in OrderLevels(thr[t].m, thr[t].arg) :
                LET r == OrderCall(S, thr[t].m, thr[t].arg, level)
                    c == [r |-> r, ref |-> OrderRef(thr[t].m, thr[t].arg, r)]
                IN  \E o \in Outcomes(t, c) :
                       /\ ApplyList(o.r, o.ref)
                       /\ thr' = [thr EXCEPT ![t].phase = "done",
                                             ![t].arg.level = level,
                                             ![t].arg.ret = o.r.ret]
          /\ Release(t, thr[t].m)
    /\ UNCHANGED acc

NextOrder == OrderCallA \/ OrderReturnA

SpecOrder == Init /\ [][NextOrder]_vars

\* ---- traversals used to state the properties -------------------------------------
\* the elements met from e by following Next(), at most fuel of them
RECURSIVE walk(_, _, _)
walk(st, e, fuel) ==
    IF e = Nil \/ fuel = 0 THEN <<>>
    ELSE <<e>> \o walk(st, ElemNext(st, e), fuel - 1)

\* the level-0 traversal from Front(); longer than the heap when it is cyclic
Chain(st) == walk(st, Front(st), Cardinality(DOMAIN st.elems) + 1)

\* Keys(): the keys along the level-0 chain from the front
Keys(st) == [i \in 1..Len(Chain(st)) |-> Key(st, Chain(st)[i])]

\* the stored keys not below key; the ceiling of key is their minimum
NotBelow(key) == {j \in Stored : j >= key}
LeastOf(ks) == CHOOSE k \in ks : \A j \in ks : k <= j
GreatestOf(ks) == CHOOSE k \in ks : \A j \in ks : k >= j

\* elements the caller holds that are no longer (or never were) in this list
Removed(st) == {e \in DOMAIN st.elems : st.elems[e].list = Nil}

\* ---- C1 ---------------------------------------------------------------------------
\* C1: after any sequence of Set, Remove, RemoveFront, RemoveBack, RemoveElement
\* and Init, Get(k) returns an element iff the reference map stores k; the
\* element has Key() = k and the value of the last Set(k, _).
C1_GetAgreesWithReference ==
    ~panicked =>
        \A k \in QueryKeys :
            LET g == Get(S, k) IN
            /\ g.status = "ok"
            /\ (g.ret # Nil) <=> (k \in Stored)
            /\ g.ret # Nil => /\ Key(S, g.ret) = k
                              /\ S.elems[g.ret].Value = ref[k].val

\* ---- C2 ---------------------------------------------------------------------------
\* C2: Find(key) returns the stored element with the smallest key >= key, and nil
\* exactly when the list is empty or key is greater than every stored key.
C2_FindIsCeiling ==
    \A key \in QueryKeys :
        LET f == Find(S, key) IN
        /\ f.status = "ok"
        /\ (f.ret = Nil) <=> (NotBelow(key) = {})
        /\ f.ret # Nil => /\ f.ret = ref[LeastOf(NotBelow(key))].elem
                          /\ Key(S, f.ret) = LeastOf(NotBelow(key))

\* a search that leaves the fast paths: the answer is neither Front() nor an
\* exact hit, and a miss beyond Back() occurs as well
C2_Witness ==
    /\ \E key \in QueryKeys :
          /\ Find(S, key).ret \notin {Nil, Front(S)}
          /\ Key(S, Find(S, key).ret) > key
    /\ \E key \in QueryKeys : Find(S, key).ret = Nil /\ length > 0

\* ---- C3 ---------------------------------------------------------------------------
\* C3: Len() equals the number of distinct keys stored (inserted minus removed)
\* and the number of elements reachable from Front() by Next().
C3_LenCountsKeys ==
    /\ ListLen(S) = Cardinality(Stored)
    /\ ListLen(S) = Len(Chain(S))

\* a key is still stored after another one was inserted and removed again
C3_Witness == ListLen(S) = 1 /\ Len(Chain(S)) = 1 /\ Removed(S) # {}

\* ---- C4 ---------------------------------------------------------------------------
\* C4: the level-0 traversal from Front() (what Keys() returns) is strictly
\* ascending, has no duplicate key, and holds exactly the keys stored.
C4_KeysAscending ==
    ~panicked =>
        LET ks == Keys(S) IN
        /\ \A i \in 1..Len(ks) - 1 : NumberComparator(ks[i], ks[i + 1]) < 0
        /\ \A i, j \in 1..Len(ks) : i # j => ks[i] # ks[j]
        /\ {ks[i] : i \in 1..Len(ks)} = Stored

\* ---- C5 ---------------------------------------------------------------------------
\* C5: Set(k, v2) on a list that stores k returns the element the inserting Set
\* returned, changes nothing but that element's Value (same Len(), Level(),
\* Next(), Prev(), position, every other element), and then Get(k).Value = v2.
C5_SetUpdatesInPlace ==
    \A k \in Stored, v2 \in ValueSet, level \in RandLevels(S) :
        LET e == ref[k].elem
            r == Set(S, k, v2, level)
        IN  /\ r.status = "ok"
            /\ r.ret = e
            /\ ListLen(r.st) = ListLen(S)
            /\ r.st = [S EXCEPT !.elems[e].Value = v2]
            /\ Get(r.st, k).ret = e
            /\ r.st.elems[e].Value = v2

\* an update of the last of two keys, found by a search that passes the first,
\* with a value it does not hold
C5_Witness ==
    \E k \in Stored, v2 \in ValueSet :
        /\ ref[k].val # v2
        /\ ref[k].elem = Back(S)
        /\ ElemPrev(S, Back(S)) # Nil
        /\ Set(S, k, v2, 1).st.elems[ref[k].elem].Value = v2

\* ---- C6 ---------------------------------------------------------------------------
\* C6: for a stored element start, FindNext(start, key) is start when
\* start.Key() >= key and otherwise the element Find(key) returns (nil when no
\* stored key is >= key); FindNext(nil, key) is Find(key).
C6_FindNextFromStart ==
    \A key \in QueryKeys :
        /\ FindNext(S, Nil, key) = Find(S, key)
        /\ \A k0 \in Stored :
              LET start == ref[k0].elem
                  r == FindNext(S, start, key)
              IN  /\ r.status = "ok"
                  /\ IF NumberComparator(Key(S, start), key) >= 0 THEN r.ret = start
                     ELSE IF NotBelow(key) = {} THEN r.ret = Nil
                     ELSE /\ r.ret = ref[LeastOf(NotBelow(key))].elem
                          /\ r.ret = Find(S, key).ret

\* searches from a start of level 1 followed by a taller element: one for a key
\* in the gap between them, one for the start's own key, one beyond Back()
C6_Witness ==
    \E k0 \in Stored, key \in QueryKeys :
        LET start == ref[k0].elem
            r == FindNext(S, start, key)
        IN  /\ Level(S, start) = 1
            /\ ElemNext(S, start) # Nil
            /\ Level(S, ElemNext(S, start)) > 1
            /\ Key(S, start) < key
            /\ r.ret = ElemNext(S, start)
            /\ Key(S, r.ret) > key
            /\ FindNext(S, start, k0).ret = start
            /\ \E far \in QueryKeys : FindNext(S, start, far).ret = Nil

\* ---- C7 ---------------------------------------------------------------------------
\* C7: Remove(key) of a stored key returns its element, then Get(key) is nil,
\* Len() is one less and the other keys keep their elements and values;
\* Remove(key) of an absent key returns nil and changes nothing.
C7_Remove ==
    \A key \in QueryKeys :
        LET r == Remove(S, key) IN
        /\ r.status = "ok"
        /\ IF key \in Stored
           THEN /\ r.ret = ref[key].elem
                /\ Get(r.st, key).ret = Nil
                /\ ListLen(r.st) = ListLen(S) - 1
                /\ \A j \in Stored \ {key} :
                      /\ Get(r.st, j).ret = ref[j].elem
                      /\ r.st.elems[ref[j].elem].Value = ref[j].val
           ELSE /\ r.ret = Nil
                /\ r.st = S

\* the larger of two stored keys is removed, and a key absent from the gap
\* between them is asked for
C7_Witness ==
    /\ \E key \in Stored :
          /\ ref[key].elem = Back(S)
          /\ ElemPrev(S, Back(S)) # Nil
          /\ Remove(S, key).ret = ref[key].elem
          /\ Get(Remove(S, key).st, key).ret = Nil
    /\ \E key \in QueryKeys \ Stored :
          /\ Key(S, Front(S)) < key /\ key < Key(S, Back(S))
          /\ Remove(S, key).ret = Nil

\* ---- C8 ---------------------------------------------------------------------------
\* C8: Front() is the element with the smallest stored key, Back() the one with
\* the largest (the last of the level-0 chain); both are nil iff Len() = 0.
C8_FrontBack ==
    /\ (Front(S) = Nil /\ Back(S) = Nil) <=> (ListLen(S) = 0)
    /\ (Front(S) = Nil \/ Back(S) = Nil) => Stored = {}
    /\ Stored # {} =>
          /\ Front(S) = ref[LeastOf(Stored)].elem
          /\ Back(S) = ref[GreatestOf(Stored)].elem
          /\ Back(S) = Chain(S)[Len(Chain(S))]

\* an element is stored after a larger back was removed
C8_Witness ==
    /\ Front(S) # Nil
    /\ Back(S) = ref[GreatestOf(Stored)].elem
    /\ \E e \in Removed(S) : Key(S, e) > Key(S, Back(S))

\* ---- C9 ---------------------------------------------------------------------------
\* C9: on an empty list RemoveFront() and RemoveBack() return nil and Len() stays
\* 0; otherwise they return the former Front() / Back(), Len() drops by one and
\* the new Front() / Back() is the removed element's former Next() / Prev().
C9_RemoveFrontBack ==
    LET rf == RemoveFront(S)
        rb == RemoveBack(S)
    IN  /\ rf.status = "ok" /\ rb.status = "ok"
        /\ IF Stored = {}
           THEN /\ rf.ret = Nil /\ ListLen(rf.st) = 0
                /\ rb.ret = Nil /\ ListLen(rb.st) = 0
           ELSE /\ rf.ret = Front(S) /\ rf.ret # Nil
                /\ ListLen(rf.st) = ListLen(S) - 1
                /\ Front(rf.st) = ElemNext(S, Front(S))
                /\ rb.ret = Back(S) /\ rb.ret # Nil
                /\ ListLen(rb.st) = ListLen(S) - 1
                /\ Back(rb.st) = ElemPrev(S, Back(S))

\* a list of two elements: what follows the front becomes the front, what
\* precedes the back becomes the back, and the list emptied by both returns nil
C9_Witness ==
    LET emptied == RemoveBack(RemoveFront(S).st).st IN
    /\ ListLen(S) = 2
    /\ Level(S, Back(S)) > 1
    /\ Front(RemoveFront(S).st) = ElemNext(S, Front(S))
    /\ Back(RemoveBack(S).st) = ElemPrev(S, Back(S))
    /\ ListLen(emptied) = 0
    /\ RemoveFront(emptied).ret = Nil /\ RemoveBack(emptied).ret = Nil

\* ---- C10 --------------------------------------------------------------------------
\* the elements this list returned earlier and has removed since
AlreadyRemoved ==
    {e \in DOMAIN elems \ {ForeignAddr} : \A k \in Stored : ref[k].elem # e}

\* C10: RemoveElement(e) changes nothing when e is nil, belongs to another list,
\* or was already removed from this list; RemoveElement(e) twice is RemoveElement(e) once.
C10_RemoveElementNoOp ==
    /\ RemoveElement(S, Nil) = Ok(S, Nil)
    /\ \A e \in DOMAIN elems :
          S.elems[e].list = OtherList => RemoveElement(S, e) = Ok(S, Nil)
    /\ \A e \in AlreadyRemoved : RemoveElement(S, e) = Ok(S, Nil)
    /\ \A e \in {Nil} \cup DOMAIN elems :
          LET once == RemoveElement(S, e)
          IN  /\ once.status = "ok"
              /\ RemoveElement(once.st, e) = Ok(once.st, Nil)

\* the caller holds a removed element, a foreign one and a stored one
C10_Witness ==
    /\ AlreadyRemoved # {}
    /\ \E e \in DOMAIN elems : S.elems[e].list = OtherList
    /\ \E k \in Stored : RemoveElement(S, ref[k].elem).st.length = length - 1

\* ---- C11 --------------------------------------------------------------------------
\* every level index a caller may pass: one below, the valid ones, one above
LevelArgs(st) == -1..MaxHeight(st)

\* e reads as cleared in st
Cleared(st, e) ==
    /\ ElemPrev(st, e) = Nil
    /\ ElemNext(st, e) = Nil
    /\ Level(st, e) = 0
    /\ \A i \in LevelArgs(st) : NextLevel(st, e, i) = Nil /\ PrevLevel(st, e, i) = Nil
    /\ st.elems[e].list = Nil

\* the headers (elements still owned by the list, and the list itself) that
\* reference e through a forward reference, prev, prevTopLevel or back
Referrers(st, e) ==
    {a \in DOMAIN st.elems :
        /\ st.elems[a].list = ThisList
        /\ \/ \E i \in 1..Len(st.elems[a].levels) : st.elems[a].levels[i] = e
           \/ st.elems[a].prev = e
           \/ st.elems[a].prevTopLevel = e}
    \cup {ListHeader : x \in {i \in 1..Len(st.levels) : st.levels[i] = e}}
    \cup {ListHeader : x \in {b \in {st.back} : b = e}}

\* the four ways of removing the element of a stored key k
Removals(k) ==
    {Remove(S, k), RemoveElement(S, ref[k].elem)}
    \cup (IF k \in RefMin THEN {RemoveFront(S)} ELSE {})
    \cup (IF k \in RefMax THEN {RemoveBack(S)} ELSE {})

\* C11: an element removed by Remove, RemoveFront, RemoveBack or RemoveElement
\* reads as cleared (Prev, Next, NextLevel(i), PrevLevel(i) nil, Level 0, owner
\* cleared), still returns its key and value, and nothing left in the list
\* references it.
C11_RemovedIsCleared ==
    /\ \A e \in AlreadyRemoved : Cleared(S, e) /\ Referrers(S, e) = {}
    /\ \A k \in Stored : \A r \in Removals(k) :
          LET e == ref[k].elem IN
          /\ r.status = "ok"
          /\ Cleared(r.st, e)
          /\ Referrers(r.st, e) = {}
          /\ Key(r.st, e) = k
          /\ r.st.elems[e].Value = ref[k].val

\* the front of two elements, referenced by the header and by the other
\* element, is removed
C11_Witness ==
    /\ ListLen(S) = 2
    /\ Level(S, Front(S)) > 1
    /\ Referrers(S, Front(S)) = {ListHeader, Back(S)}
    /\ Cleared(RemoveFront(S).st, Front(S))

\* ---- C12 --------------------------------------------------------------------------
\* C12: for every stored element e, Next() is nil or has a greater key, Prev() is
\* nil or has a smaller key, Next().Prev() = e and Prev().Next() = e where they
\* exist, Prev() is nil only for Front() and Next() is nil only for Back().
C12_Neighbours ==
    \A k \in Stored :
        LET e == ref[k].elem
            n == ElemNext(S, e)
            p == ElemPrev(S, e)
        IN  /\ n # Nil => /\ NumberComparator(Key(S, n), Key(S, e)) > 0
                          /\ ElemPrev(S, n) = e
            /\ p # Nil => /\ NumberComparator(Key(S, p), Key(S, e)) < 0
                          /\ ElemNext(S, p) = e
            /\ p = Nil <=> e = Front(S)
            /\ n = Nil <=> e = Back(S)

\* two stored neighbours of different levels
C12_Witness ==
    /\ ListLen(S) = 2
    /\ ElemNext(S, Front(S)) = Back(S)
    /\ ElemPrev(S, Back(S)) = Front(S)
    /\ Key(S, Front(S)) < Key(S, Back(S))
    /\ Level(S, Front(S)) # Level(S, Back(S))

\* ---- C13 --------------------------------------------------------------------------
\* what SetMaxLevel must leave alone: Len(), the level-0 key sequence, back and
\* every element (value, level, forward and backward references)
SameContents(st, old) ==
    /\ ListLen(st) = ListLen(old)
    /\ Keys(st) = Keys(old)
    /\ st.elems = old.elems
    /\ Back(st) = Back(old)

\* C13: SetMaxLevel(n) with n > 0, on a list resized before or not, leaves
\* Len(), the level-0 key sequence and every element's value, level and
\* references unchanged; only MaxLevel(), the probability table and the header
\* array change.
C13_SetMaxLevelFrame ==
    ~panicked =>
        \A n \in LevelRequests : n > 0 =>
            LET r == SetMaxLevel(S, n) IN
            /\ r.status = "ok"
            /\ SameContents(r.st, S)
            /\ MaxLevel(r.st) = n
            /\ r.st.probTable = probabilityTable(n)

\* a populated list that was resized before is shrunk to one level and then
\* grown beyond the capacity of its header array
C13_Witness ==
    /\ ~panicked
    /\ ListLen(S) > 0
    /\ MaxLevel(S) # DefaultMaxLevel
    /\ Len(levels) > 1
    /\ Len(SetMaxLevel(S, 1).st.levels) < Len(levels)
    /\ LET r == SetMaxLevel(SetMaxLevel(S, 1).st, DefaultMaxLevel + 1)
       IN  Len(r.st.levels) = DefaultMaxLevel + 1 /\ Keys(r.st) = Keys(S)

\* ---- C14 --------------------------------------------------------------------------
\* the first element of the level-0 chain whose Level() is above i, or nil
FirstAbove(st, i) ==
    LET c == Chain(st)
        at == {j \in 1..Len(c) : Level(st, c[j]) > i}
    IN  IF at = {} THEN Nil ELSE c[CHOOSE j \in at : \A x \in at : j <= x]

\* every level some chained element occupies has its header slot, and the slot
\* references the first element of that level
HeaderKeepsLive(st) ==
    \A i \in 0..MaxHeight(st) :
        FirstAbove(st, i) # Nil =>
            i < Len(st.levels) /\ st.levels[i + 1] = FirstAbove(st, i)

\* C14: SetMaxLevel(n) with n below the header length drops no header slot that
\* references a live element: every occupied level keeps its slot, which still
\* references the first stored element of that level.
C14_ShrinkKeepsLiveLevels ==
    (~panicked /\ HeaderKeepsLive(S)) =>
        \A n \in 1..Len(levels) - 1 :
            LET r == SetMaxLevel(S, n) IN
            r.status = "ok" /\ HeaderKeepsLive(r.st)

\* ---- C15 --------------------------------------------------------------------------
\* C15: in every reachable state, after SetMaxLevel(n) and after Init too, the
\* header's level array has length exactly MaxLevel().
C15_HeaderLengthIsMaxLevel == ~panicked => Len(levels) = MaxLevel(S)

\* ---- C16 --------------------------------------------------------------------------
\* C16: MustGetValue(k) aborts iff k is not stored and otherwise returns
\* Get(k).Value; SetMaxLevel(n) aborts iff n <= 0; an abort modifies no list
\* state; GetValue(k) of an absent k returns ok = false without aborting.
C16_Aborts ==
    ~panicked =>
        /\ \A k \in QueryKeys :
              LET m == MustGetValue(S, k)
                  g == GetValue(S, k)
              IN  /\ m.status \in {"ok", "panic"}
                  /\ m.status = "panic" <=> k \notin Stored
                  /\ m.status = "ok" => /\ m.ret = S.elems[Get(S, k).ret].Value
                                        /\ m.ret = ref[k].val
                  /\ m.st = S
                  /\ g.status = "ok" /\ g.st = S
                  /\ g.ret.ok <=> k \in Stored
        /\ \A n \in LevelRequests :
              LET r == SetMaxLevel(S, n) IN
              /\ r.status \in {"ok", "panic"}
              /\ r.status = "panic" <=> n <= 0
              /\ r.status = "panic" => r.st = S

\* a stored key is read, an absent key between two stored ones aborts
\* MustGetValue only, and SetMaxLevel(0) aborts
C16_Witness ==
    /\ \E k \in Stored : MustGetValue(S, k) = Ok(S, MaxVal)
    /\ \E k \in QueryKeys \ Stored :
          /\ Key(S, Front(S)) < k /\ k < Key(S, Back(S))
          /\ MustGetValue(S, k).status = "panic"
          /\ GetValue(S, k) = Ok(S, [val |-> ZeroValue, ok |-> FALSE])
    /\ SetMaxLevel(S, 0) = Fail(S, "panic")

\* ---- C17 --------------------------------------------------------------------------
\* the first Set on the list st stores its key like the first Set on a new list
FirstSetLikeNew(st, key, value, level) ==
    LET r == Set(st, key, value, level)
        e == r.ret
    IN  /\ r.status = "ok"
        /\ e # Nil /\ e \notin DOMAIN st.elems
        /\ Key(r.st, e) = key /\ r.st.elems[e].Value = value
        /\ Level(r.st, e) = level
        /\ ListLen(r.st) = 1 /\ Front(r.st) = e /\ Back(r.st) = e
        /\ Chain(r.st) = <<e>>
        /\ \A i \in 1..Len(r.st.levels) :
              r.st.levels[i] = (IF i <= level THEN e ELSE Nil)
        /\ \A k \in QueryKeys :
              Get(r.st, k) = Ok(r.st, IF k = key THEN e ELSE Nil)
        /\ LET d == Remove(r.st, key)
           IN  /\ d.status = "ok" /\ d.ret = e
               /\ ListLen(d.st) = 0 /\ Front(d.st) = Nil /\ Back(d.st) = Nil

\* C17: after Init() in any reachable state, Len() = 0, Front() and Back() are
\* nil, every header slot is empty, Get(k) and Find(k) return nil for every k,
\* MaxLevel() is unchanged, and the next Set, Get and Remove act as on a new list.
C17_InitResets ==
    ~panicked =>
        LET r == ListInit(S) IN
        /\ r.status = "ok"
        /\ ListLen(r.st) = 0 /\ Front(r.st) = Nil /\ Back(r.st) = Nil
        /\ \A i \in 1..Len(r.st.levels) : r.st.levels[i] = Nil
        /\ Len(r.st.levels) >= MaxLevel(r.st)
        /\ \A k \in QueryKeys :
              Get(r.st, k) = Ok(r.st, Nil) /\ Find(r.st, k) = Ok(r.st, Nil)
        /\ MaxLevel(r.st) = MaxLevel(S)
        /\ \A key \in KeySet, level \in RandLevels(r.st) :
              FirstSetLikeNew(r.st, key, MaxVal, level)

\* Init() of a populated list whose header array was resized
C17_Witness ==
    /\ ~panicked
    /\ ListLen(S) > 0 /\ Front(S) # Nil
    /\ Level(S, Front(S)) > 1
    /\ MaxLevel(S) # DefaultMaxLevel
    /\ Front(ListInit(S).st) = Nil

\* ---- C18 ------------------------------------------------------------------------
\* every Set call of the run has returned
AllDone == \A t \in Threads : thr[t].phase = "done"

\* C18: when MaxThreads threads each call Set once through the SafeSkipList, with
\* pairwise distinct keys and in any interleaving of their lock calls and
\* returns, then after all of them have returned no call has crashed, Len() is
\* MaxThreads and Keys() is strictly ascending and holds exactly the keys set.
C18_ConcurrentSets ==
    AllDone =>
        LET ks == Keys(S) IN
        /\ ~panicked
        /\ ListLen(S) = MaxThreads
        /\ Len(ks) = MaxThreads
        /\ \A i \in 1..Len(ks) - 1 : ks[i] < ks[i + 1]
        /\ {ks[i] : i \in 1..Len(ks)} = {thr[t].arg : t \in Threads}

\* all calls returned, the first thread set the largest key and the keys leave
\* a gap, the front element is taller than one level
C18_Witness ==
    /\ AllDone
    /\ ListLen(S) = MaxThreads
    /\ \A t \in Threads \ {1} : thr[t].arg < thr[1].arg
    /\ Level(S, Front(S)) > 1
    /\ Key(S, Front(S)) > 1

\* ---- C19 ------------------------------------------------------------------------
\* the wrapper calls that change the list, and the ones that only look
Mutators ==
    {"Set", "Remove", "RemoveFront", "RemoveBack", "RemoveElement", "Init",
     "SetRandSource", "SetMaxLevel"}
Lookups ==
    {"Front", "Back", "Len", "Find", "FindNext", "Get", "GetValue",
     "MustGetValue", "Keys", "Values", "MaxLevel"}

InEngine(t) == thr[t].phase = "engine"

\* C19: a thread inside the engine code of a mutating wrapper call holds the
\* lock exclusively and no other thread is inside engine code of any wrapper
\* call; a thread inside the engine code of a lookup holds the lock shared, and
\* the only calls inside engine code at the same time are other lookups.
C19_LockDiscipline ==
    \A t \in Threads :
        InEngine(t) =>
            /\ thr[t].m \in Mutators \cup Lookups
            /\ thr[t].m \in Mutators =>
                  /\ lockW = t /\ lockR = {}
                  /\ \A u \in Threads \ {t} : ~InEngine(u)
            /\ thr[t].m \in Lookups =>
                  /\ t \in lockR /\ lockW = Unlocked
                  /\ \A u \in Threads \ {t} : InEngine(u) => thr[u].m \in Lookups

\* two lookups are inside the engine at once, on a list that a Set through the
\* wrapper has filled
C19_Witness ==
    /\ ~panicked
    /\ ListLen(S) > 0
    /\ \E t, u \in Threads :
          /\ t # u /\ InEngine(t) /\ InEngine(u)
          /\ thr[t].m = "Get" /\ thr[u].m = "Keys"
          /\ lockR = {t, u}

\* ---- C20 ------------------------------------------------------------------------
\* C20: an accessor called without a lock on a stored element, while another
\* thread removes that element through the wrapper, never crashes, and what
\* it returns is the value it had when the call began or the cleared value
\* (nil, or 0 for Level()).
C20_UnlockedAccessors ==
    /\ acc.pc # "crashed"
    /\ acc.pc = "returned" => acc.ret \in {acc.pre, Nil}

\* ---- C21 ------------------------------------------------------------------------
\* the elements met from e by following the level-i forward references; an
\* element too short to have a level i ends the chain with the header's mark
RECURSIVE walkLevel(_, _, _, _)
walkLevel(st, e, i, fuel) ==
    IF e = Nil \/ fuel = 0 THEN <<>>
    ELSE IF i >= Level(st, e) THEN <<e, ListHeader>>
    ELSE <<e>> \o walkLevel(st, st.elems[e].levels[i + 1], i, fuel - 1)

\* the level-i chain from header slot i
LevelChain(st, i) ==
    walkLevel(st, st.levels[i + 1], i, Cardinality(DOMAIN st.elems) + 1)

Range(sq) == {sq[j] : j \in 1..Len(sq)}

\* C21: in every state reachable by Set and the removes, for each level i the
\* chain from header slot i holds exactly the stored elements with Level() > i,
\* in strictly ascending key order, and is a subsequence of the level-(i-1) chain.
C21_LevelChains ==
    ~panicked =>
        \A i \in 0..Len(levels) - 1 :
            LET c == LevelChain(S, i) IN
            /\ ListHeader \notin Range(c)
            /\ Range(c) = {ref[k].elem : k \in {x \in Stored : Level(S, ref[x].elem) > i}}
            /\ \A j \in 1..Len(c) - 1 : Key(S, c[j]) < Key(S, c[j + 1])
            /\ i > 0 => Range(c) \subseteq Range(LevelChain(S, i - 1))

\* two stored elements, the taller one behind the shorter one: the level-1
\* chain skips the front
C21_Witness ==
    /\ ~panicked
    /\ ListLen(S) = 2
    /\ Len(LevelChain(S, 0)) = 2
    /\ LevelChain(S, 1) = <<Back(S)>>
    /\ Front(S) # Back(S)

\* ---- C22 ------------------------------------------------------------------------
\* the stored elements before e that are at least as tall as e
TallerBefore(st, e) ==
    {ref[k].elem : k \in {x \in Stored : /\ x < Key(st, e)
                                          /\ Level(st, ref[x].elem) >= Level(st, e)}}

\* the element of es with the greatest key
LastOf(st, es) == CHOOSE p \in es : \A q \in es : Key(st, q) <= Key(st, p)

AboveBefore(st, e, i) ==
    {ref[k].elem : k \in {x \in Stored : x < Key(st, e) /\ Level(st, ref[x].elem) > i}}
AboveAfter(st, e, i) ==
    {ref[k].elem : k \in {x \in Stored : x > Key(st, e) /\ Level(st, ref[x].elem) > i}}

FirstOf(st, es) == CHOOSE p \in es : \A q \in es : Key(st, p) <= Key(st, q)

C24_ResizeKeepsLookups ==
    ~panicked =>
        /\ \A k \in QueryKeys :
              LET g == Get(S, k)
                  f == Find(S, k)
              IN  /\ g.status = "ok" /\ f.status = "ok"
                  /\ g.ret = IF k \in Stored THEN ref[k].elem ELSE Nil
                  /\ f.ret = IF NotBelow(k) = {} THEN Nil
                             ELSE ref[LeastOf(NotBelow(k))].elem
                  /\ g.ret \notin Removed(S) /\ f.ret \notin Removed(S)
                  /\ g.ret # Nil => S.elems[g.ret].Value = ref[k].val
        /\ LET ks == Keys(S) IN
              /\ \A i \in 1..Len(ks) - 1 : ks[i] < ks[i + 1]
              /\ ListLen(S) = Len(ks)

\* ---- C25 ------------------------------------------------------------------------
\* the arrays the splice of Set indexes at level i are long enough
SpliceInRange(st, key, level) ==
    LET sr == searchPrev(st, key, ListHeader, Len(st.levels) - 1,
                         [i \in 1..Len(st.levels) |-> Nil], Fuel(st))
    IN  (st.length # 0 /\ sr.status = "ok" /\ sr.found = Nil) =>
            /\ level <= Len(sr.prevs)
            /\ \A i \in 0..level - 1 : i < Len(HLevels(st, sr.prevs[i + 1]))

\* every level randLevel() can return now lies in 1..MaxLevel() and within the
\* header array, and a Set that inserts creates an element of just that level
LevelsDrawnInRange ==
    ~panicked =>
        /\ \A d \in Draws(S) :
              LET l == randLevel(S, d) IN
              /\ l.status = "ok"
              /\ 1 <= l.ret /\ l.ret <= MaxLevel(S) /\ l.ret <= Len(levels)
        /\ RandLevels(S) = {randLevel(S, d).ret : d \in Draws(S)}
        /\ \A key \in KeySet, d \in Draws(S) :
              LET level == randLevel(S, d).ret
                  r == Set(S, key, MaxVal, level)
              IN  /\ length = 0 => level <= Len(levels)
                  /\ SpliceInRange(S, key, level)
                  /\ (r.status = "ok" /\ r.ret \notin DOMAIN elems) =>
                        /\ Level(r.st, r.ret) = level
                        /\ \A e \in DOMAIN elems : Level(r.st, e) = Level(S, e)

\* no call changes the Level() of an element that stays in the list
LevelsStayFixed ==
    \A e \in DOMAIN elems :
        (Owned(S, e) /\ e \in DOMAIN elems' /\ elems'[e].list = ThisList) =>
            Len(elems'[e].levels) = Len(elems[e].levels)

\* C25: every element created by Set has a level L with 1 <= L <= MaxLevel()
\* at the moment of insertion, L is at most the header array length, the splice
\* of Set indexes no array out of range, and Level() of an element stays as it
\* is until the element is removed.
C25_LevelsInRange == []LevelsDrawnInRange /\ [][LevelsStayFixed]_vars

\* a list whose maximum level was lowered holds an element taller than
\* MaxLevel(), and Set is about to insert behind it
C25_Witness ==
    /\ ~panicked
    /\ ListLen(S) > 0
    /\ MaxLevel(S) < DefaultMaxLevel
    /\ Level(S, Front(S)) > MaxLevel(S)
    /\ \E key \in KeySet : key > Key(S, Front(S)) /\ DrawsLevel(S, key)

\* ---- C26 ------------------------------------------------------------------------
\* C26: in every state and for every argument, each wrapper method returns what
\* the engine method it wraps returns and leaves the state the engine method
\* leaves; so does SetMaxLevel(n).
C26_WrapperPassesThrough ==
    ~panicked =>
        /\ SafeInit(S) = ListInit(S)
        /\ SafeFront(S).ret = Front(S) /\ SafeBack(S).ret = Back(S)
        /\ SafeLen(S).ret = ListLen(S) /\ SafeMaxLevel(S).ret = MaxLevel(S)
        /\ SafeRemoveFront(S) = RemoveFront(S) /\ SafeRemoveBack(S) = RemoveBack(S)
        /\ \A key \in QueryKeys :
              /\ SafeFind(S, key) = Find(S, key) /\ SafeGet(S, key) = Get(S, key)
              /\ SafeGetValue(S, key) = GetValue(S, key)
              /\ SafeMustGetValue(S, key) = MustGetValue(S, key)
              /\ SafeRemove(S, key) = Remove(S, key)
              /\ \A start \in {Nil} \cup {e \in DOMAIN elems : Owned(S, e)} :
                    SafeFindNext(S, start, key) = FindNext(S, start, key)
        /\ \A key \in KeySet, value \in ValueSet, level \in RandLevels(S) :
              SafeSet(S, key, value, level) = Set(S, key, value, level)
        /\ \A elem \in {Nil} \cup DOMAIN elems :
              SafeRemoveElement(S, elem) = RemoveElement(S, elem)
        /\ \A level \in LevelRequests :
              SafeSetMaxLevel(S, level) = SetMaxLevel(S, level)

\* ---- C27 ------------------------------------------------------------------------
\* a key the callers set and did not remove is not on the level-0 chain
LostUpdate(st) == \E k \in Stored : ref[k].elem \notin Range(Chain(st))

\* the list is corrupted
Corrupted(st) ==
    \/ LostUpdate(st)
    \/ ListLen(st) # Len(Chain(st))
    \/ \E e \in Range(Chain(st)) : e \in Removed(st)
    \/ \E i \in 1..Len(Chain(st)) - 1 :
          Key(st, Chain(st)[i]) >= Key(st, Chain(st)[i + 1])

\* the calls that came back after writing to a list that had changed since
\* they read it
StaleCalls == {t \in Callers : thr[t].phase = "done" /\ thr[t].arg.stale}

\* C27: on the engine used without the wrapper, calls whose steps interleave
\* can leave a corrupted list (the witness); a list is corrupted, or a call has
\* aborted, only after some call wrote to a list that another call had
\* changed between its reads and its writes.
C27_OnlyInterleavingCorrupts ==
    (panicked \/ Corrupted(S)) => StaleCalls # {}

\* two interleaved Set calls have come back and one of the keys is lost, Len()
\* counts an element that is not on the chain
C27_Witness ==
    /\ ~panicked
    /\ \A t \in Callers : thr[t].phase = "done" /\ thr[t].m = "Set"
    /\ LostUpdate(S)
    /\ ListLen(S) # Len(Chain(S))

\* ---- C28 ------------------------------------------------------------------------
\* C28: a shell that was removed from the list, Put in the pool and handed out
\* again by Get(list, L, key, value) has Level() = L, all L forward references
\* nil, prev and prevTopLevel nil, the owner list, and the key and value given;
\* nothing else in the heap or the list changes.
C28_PoolShellIsClean ==
    ~panicked =>
        \A e \in Removed(S), L \in 1..MaxHeight(S) + 1, key \in KeySet, value \in ValueSet :
            LET g == elementPoolGet(S, e, ThisList, L, key, value) IN
            /\ Level(g, e) = L
            /\ \A i \in 0..L - 1 : NextLevel(g, e, i) = Nil
            /\ ElemPrev(g, e) = Nil /\ g.elems[e].prevTopLevel = Nil
            /\ g.elems[e].list = ThisList
            /\ Key(g, e) = key /\ g.elems[e].Value = value
            /\ \A o \in DOMAIN elems \ {e} : g.elems[o] = elems[o]
            /\ [g EXCEPT !.elems = elems] = S

\* a removed shell lies beside a list that still holds an element, and the
\* pool hands it out with more than one level
C28_Witness ==
    /\ ~panicked
    /\ ListLen(S) > 0
    /\ \E e \in Removed(S) :
          /\ Key(S, e) < Key(S, Front(S))
          /\ Level(elementPoolGet(S, e, ThisList, DefaultMaxLevel, MaxKey, MaxVal), e)
                = DefaultMaxLevel

\* ---- C29 ------------------------------------------------------------------------
\* the elements the list has handed out and no longer stores
Discarded == (DOMAIN elems \ {ForeignAddr}) \ {ref[k].elem : k \in Stored}

\* C29: an element the list no longer stores, whether removed or dropped by
\* Init, is destroyed: RemoveElement on it changes nothing, Len() is never
\* negative, an empty list has Front() and Back() nil, and no such element is
\* linked behind the header.
C29_InitDestroysElements ==
    ~panicked =>
        /\ ListLen(S) >= 0
        /\ Stored = {} => Front(S) = Nil /\ Back(S) = Nil
        /\ \A e \in Discarded :
              /\ e \in Removed(S)
              /\ RemoveElement(S, e) = Ok(S, Nil)
              /\ \A i \in 1..Len(levels) : levels[i] # e

\* ---- C30 ------------------------------------------------------------------------
\* C30: no engine operation called with arguments it accepts aborts: no
\* mutation has aborted, and in the state reached every lookup (Get, Find,
\* FindNext from a stored element) and every level draw returns.
C30_NoOperationAborts ==
    /\ ~panicked
    /\ \A k \in QueryKeys :
          /\ Get(S, k).status = "ok"
          /\ Find(S, k).status = "ok"
          /\ \A j \in Stored : FindNext(S, ref[j].elem, k).status = "ok"
    /\ \A d \in Draws(S) : randLevel(S, d).status = "ok"

\* ---- C31 ------------------------------------------------------------------------
\* thread t is inside a wrapper call: before the lock call or in engine code
InCall(t) == thr[t].phase \in {"lock", "engine"}

\* the lock is held by exactly the threads in engine code, each in the mode of
\* its method; so it is free when no call is in progress
LockHeldByCallsOnly ==
    /\ lockW # Unlocked =>
          /\ lockW \in Threads /\ InEngine(lockW) /\ LockOf(thr[lockW].m) = "Lock"
    /\ \A t \in lockR : InEngine(t) /\ LockOf(thr[t].m) = "RLock"
    /\ \A t \in Threads :
          InEngine(t) => IF LockOf(thr[t].m) = "Lock" THEN lockW = t ELSE t \in lockR
    /\ (\A t \in Threads : ~InCall(t)) => lockW = Unlocked /\ lockR = {}

\* a thread whose lock call returns did not hold the lock before
NoReacquire ==
    \A t \in Threads :
        (thr[t].phase = "lock" /\ thr'[t].phase = "engine") =>
            lockW # t /\ t \notin lockR

\* C31: the lock is held only by calls in progress, whatever way the earlier
\* calls ended (returned or aborted); no call takes the lock while it holds it;
\* and when every thread makes one call, every call comes to its end.
C31_LockAlwaysReleased ==
    /\ []LockHeldByCallsOnly
    /\ [][NoReacquire]_vars
    /\ \A t \in Threads : InCall(t) ~> ~InCall(t)

\* MustGetValue has aborted on an absent key under the shared lock and
\* SetMaxLevel on a level that is not positive under the exclusive lock; both
\* calls are over and the lock is free
C31_Witness ==
    /\ \E t, u \in Threads :
          /\ thr[t].phase = "aborted" /\ thr[t].m = "MustGetValue"
          /\ thr[u].phase = "aborted" /\ thr[u].m = "SetMaxLevel"
    /\ lockW = Unlocked /\ lockR = {}

\* ---- C32 ------------------------------------------------------------------------
\* the thread whose lock call returned as the i-th
CallAt(i) == CHOOSE t \in Threads : thr[t].phase # "idle" /\ thr[t].arg.ord = i

\* the engine, called by one thread with the calls 1..i that have returned, in
\* the order of their lock calls: the list it ends with, and whether each call
\* handed back what the concurrent call did
RECURSIVE Sequential(_)
Sequential(i) ==
    IF i = 0 THEN [st |-> NewList, same |-> TRUE]
    ELSE LET p == Sequential(i - 1)
             t == CallAt(i)
         IN  IF thr[t].phase # "done" THEN p
             ELSE LET r == OrderCall(p.st, thr[t].m, thr[t].arg, thr[t].arg.level)
                  IN  [st |-> r.st,
                       same |-> p.same /\ r.status = "ok" /\ r.ret = thr[t].arg.ret]

\* C32: whatever the interleaving of concurrent Set, Remove, RemoveFront,
\* RemoveBack, Get and Len calls through the wrapper, no call aborts, every
\* call that has returned handed back what it hands back when the same calls
\* are made one after the other in the order of their lock calls, and the list
\* is the one those calls leave; two Sets of one key that have both returned
\* handed back the same element unless a removal came between them.
C32_LockOrderIsSequential ==
    /\ ~panicked
    /\ Sequential(LockCalls).same
    /\ Sequential(LockCalls).st = S
    /\ \A t, u \in Threads :
          (/\ thr[t].phase = "done" /\ thr[u].phase = "done"
           /\ thr[t].m = "Set" /\ thr[u].m = "Set"
           /\ thr[t].arg.key = thr[u].arg.key
           /\ \A w \in Threads : thr[w].phase = "idle" \/ thr[w].m \in {"Set", "Get", "Len"})
          => thr[t].arg.ret = thr[u].arg.ret

\* two Sets of the same key with different values have both returned the same
\* element, the list holds that element alone, with the value of the later call
C32_Witness ==
    \E t, u \in Threads :
        /\ thr[t].phase = "done" /\ thr[u].phase = "done"
        /\ thr[t].m = "Set" /\ thr[u].m = "Set"
        /\ thr[t].arg.key = thr[u].arg.key
        /\ thr[t].arg.value # thr[u].arg.value
        /\ thr[t].arg.ord < thr[u].arg.ord
        /\ thr[t].arg.ret = thr[u].arg.ret /\ thr[t].arg.ret # Nil
        /\ ListLen(S) = 1 /\ Front(S) = thr[u].arg.ret
        /\ S.elems[Front(S)].Value = thr[u].arg.value

\* ---- C33 ------------------------------------------------------------------------
\* C33: SetMaxLevel(n) with n > 0 returns the value MaxLevel() had just before
\* the call, and MaxLevel() is n afterwards.
C33_SetMaxLevelReturnsOld ==
    ~panicked =>
        \A n \in ValidLevelRequests :
            LET r == SetMaxLevel(S, n) IN
            /\ r.status = "ok"
            /\ r.ret = MaxLevel(S)
            /\ MaxLevel(r.st) = n

====
